---- MODULE Spec2Model ----
(***************************************************************************)
(* The POST /api/scan handler of src/app/api/scan/route.js and the helpers *)
(* it is built from: enrichViolations, prioritizeRemediations,             *)
(* generateAuditReport, validateAuditResults, and the calls the handler    *)
(* makes to checkRateLimit, scanWebsite, explainIssue, generateSummary and *)
(* generateImprovementPlan.                                                *)
(***************************************************************************)
EXTENDS Integers, Sequences, FiniteSets, TLC

VARIABLES now, requests, admitted, env, req, call

vars == <<now, requests, admitted, env, req, call>>

(***************************************************************************)
(* Bounds of the model.                                                    *)
(***************************************************************************)
\* The clock runs over 0..MaxTime.
MaxTime == 4
\* Requests per window that checkRateLimit admits (10 in production).
RateLimit == 2
\* Length of the sliding window, in clock ticks (60 s in production).
WindowTicks == 2
\* Longest violation list scanWebsite returns in the admission specification.
MaxScanLen == 1
\* Longest list of mixed violations scanWebsite returns in the pipeline
\* specification, and longest list it returns there at all.
MaxMixedLen == 3
MaxPipelineLen == 6
\* Longest list of mixed raw violations given to the synchronous pipeline.
MaxRawLen == 3
\* Longest list of like raw violations given to the synchronous pipeline.
MaxViolations == 14

(***************************************************************************)
(* JavaScript values.  One record shape for every value, so that values of *)
(* different JavaScript types can be compared: k is the type tag, s the    *)
(* text of a string, n the value of a number, a the elements of an array   *)
(* of strings.                                                             *)
(***************************************************************************)
JUndef == [k |-> "undefined", s |-> "", n |-> 0, a |-> <<>>]

JNull == [k |-> "null", s |-> "", n |-> 0, a |-> <<>>]

JNaN == [k |-> "NaN", s |-> "", n |-> 0, a |-> <<>>]

JStr(x) == [k |-> "string", s |-> x, n |-> 0, a |-> <<>>]

JNum(x) == [k |-> "number", s |-> "", n |-> x, a |-> <<>>]

JArr(xs) == [k |-> "array", s |-> "", n |-> 0, a |-> xs]

\* ToBoolean: undefined, null, NaN, "" and 0 are falsy, all else is truthy.
Truthy(v) ==
  CASE v.k \in {"undefined", "null", "NaN"} -> FALSE
    [] v.k = "string" -> v.s # ""
    [] v.k = "number" -> v.n # 0
    [] OTHER -> TRUE

\* a || b
Or(a, b) == IF Truthy(a) THEN a ELSE b

\* ToNumber of the values a score field can hold.
ToNumber(v) ==
  CASE v.k = "number" -> v
    [] v.k = "null" -> JNum(0)
    [] v.k = "string" /\ v.s = "" -> JNum(0)
    [] OTHER -> JNaN

\* a - b on numbers: NaN when either operand is NaN.
Minus(a, b) ==
  LET x == ToNumber(a)
      y == ToNumber(b)
  IN IF x.k = "NaN" \/ y.k = "NaN" THEN JNaN ELSE JNum(x.n - y.n)

\* Math.min and Math.max: NaN when either argument is NaN.
MathMin(a, b) ==
  IF a.k = "NaN" \/ b.k = "NaN" THEN JNaN ELSE JNum(IF a.n <= b.n THEN a.n ELSE b.n)

MathMax(a, b) ==
  IF a.k = "NaN" \/ b.k = "NaN" THEN JNaN ELSE JNum(IF a.n >= b.n THEN a.n ELSE b.n)

(***************************************************************************)
(* Strings the handler inspects character by character are sequences of    *)
(* one-character strings.                                                  *)
(***************************************************************************)
RECURSIVE TrimStart(_)
TrimStart(s) == IF s # <<>> /\ Head(s) = " " THEN TrimStart(Tail(s)) ELSE s

RECURSIVE TrimEnd(_)
TrimEnd(s) ==
  IF s # <<>> /\ s[Len(s)] = " " THEN TrimEnd(SubSeq(s, 1, Len(s) - 1)) ELSE s

\* String.prototype.trim
Trim(s) == TrimEnd(TrimStart(s))

\* String.prototype.startsWith
StartsWith(s, p) == Len(s) >= Len(p) /\ SubSeq(s, 1, Len(p)) = p

Http == <<"h", "t", "t", "p", ":", "/", "/">>

Https == <<"h", "t", "t", "p", "s", ":", "/", "/">>

RECURSIVE SkipSlashes(_)
SkipSlashes(s) == IF s # <<>> /\ Head(s) = "/" THEN SkipSlashes(Tail(s)) ELSE s

RECURSIVE UpTo(_, _)
UpTo(s, c) == IF s = <<>> \/ Head(s) = c THEN <<>> ELSE <<Head(s)>> \o UpTo(Tail(s), c)

\* new URL(url) for a url that starts with http:// or https://, over the
\* characters letters, ".", "/", ":" and " ": the slashes after the scheme
\* are skipped, the host runs to the next "/", and parsing fails (throws)
\* when the host is empty, holds a space, or is followed by a port that is
\* not a number.
UrlParses(url) ==
  LET rest == SkipSlashes(IF StartsWith(url, Https)
                          THEN SubSeq(url, Len(Https) + 1, Len(url))
                          ELSE SubSeq(url, Len(Http) + 1, Len(url)))
      authority == UpTo(rest, "/")
      host == UpTo(authority, ":")
      port == SubSeq(authority, Len(host) + 2, Len(authority))
  IN /\ host # <<>>
     /\ \A i \in 1..Len(host) : host[i] # " "
     /\ port = <<>>

\* Decimal text of a non-negative integer, as JSON.stringify and the Headers
\* constructor write a number.
Digit(d) == <<"0", "1", "2", "3", "4", "5", "6", "7", "8", "9">>[d + 1]

RECURSIVE NumberToString(_)
NumberToString(x) ==
  IF x < 10 THEN <<Digit(x)>> ELSE NumberToString(x \div 10) \o <<Digit(x % 10)>>

DigitValue(c) == CHOOSE d \in 0..9 : Digit(d) = c

\* The number a client reads back from decimal text.
RECURSIVE ParseNumber(_)
ParseNumber(s) ==
  IF s = <<>> THEN 0
  ELSE 10 * ParseNumber(SubSeq(s, 1, Len(s) - 1)) + DigitValue(s[Len(s)])

(***************************************************************************)
(* Raw violations, as scanWebsite returns them: a mapping in which any     *)
(* field may be missing (undefined) or of the wrong type.                  *)
(***************************************************************************)
RawFields == {"id", "ruleId", "description", "help", "message", "impact",
              "severity", "nodes", "targets", "tags"}

EmptyObject == [f \in RawFields |-> JUndef]

\* An object literal { f1: v1, ... }: the fields of m, all others missing.
Obj(m) == [f \in RawFields |-> IF f \in DOMAIN m THEN m[f] ELSE JUndef]

\* `violation-${idx}` and `issue-${idx}` for a zero-based index.
\* `violation-${n}` numbered by a counter that the first run has advanced
\* when the pipeline runs again.
ViolationIdRunning(idx) ==
  "violation-" \o ToString(idx + (IF call.pc = "built" THEN 1 ELSE 0))

ViolationId(idx) ==
  <<"violation-0", "violation-1", "violation-2", "violation-3", "violation-4",
    "violation-5", "violation-6", "violation-7", "violation-8", "violation-9",
    "violation-10", "violation-11", "violation-12", "violation-13",
    "violation-14", "violation-15", "violation-16", "violation-17">>[idx + 1]

IssueId(idx) ==
  <<"issue-0", "issue-1", "issue-2", "issue-3", "issue-4", "issue-5",
    "issue-6", "issue-7", "issue-8", "issue-9", "issue-10", "issue-11",
    "issue-12", "issue-13", "issue-14", "issue-15", "issue-16",
    "issue-17">>[idx + 1]

\* /^wcag|^WCAG/i.test(t) || /^wcag/.test(t) on the tags of the vocabulary:
\* true of the tags that begin with "wcag" in any letter case.
WcagTag(t) == t \in {"wcag2a", "wcag111", "WCAG21aa", "Wcag2aa"}

RECURSIVE Filter(_)
Filter(tags) ==
  IF tags = <<>> THEN <<>>
  ELSE (IF WcagTag(Head(tags)) THEN <<Head(tags)>> ELSE <<>>) \o Filter(Tail(tags))

\* The object written for one violation in the try block of enrichViolations.
EnrichOne(v, idx) ==
  [id |-> Or(Or(v.id, v.ruleId), JStr(ViolationId(idx))),
   description |-> Or(Or(Or(v.description, v.help), v.message), JStr("")),
   impact |-> Or(Or(v.impact, v.severity), JStr("moderate")),
   nodes |-> Or(Or(v.nodes, v.targets), JArr(<<>>)),
   wcag |-> JArr(Filter(Or(v.tags, JArr(<<>>)).a)),
   raw |-> v,
   aiExplanation |-> JUndef]

\* The object written for one violation in the catch block: { id, raw }.
MinimalOne(v, idx) ==
  [id |-> Or(v.id, JStr(ViolationId(idx))),
   description |-> JUndef,
   impact |-> JUndef,
   nodes |-> JUndef,
   wcag |-> JUndef,
   raw |-> v,
   aiExplanation |-> JUndef]

\* (v.tags || []).filter(...) throws a TypeError when tags is a truthy value
\* that is not an array: it has no filter method.
FilterThrows(v) == Truthy(v.tags) /\ v.tags.k # "array"

\* The try block of enrichViolations: the mapped array, or the TypeError.
EnrichTry(violations) ==
  IF \E i \in 1..Len(violations) : FilterThrows(violations[i])
  THEN [threw |-> TRUE, value |-> <<>>]
  ELSE [threw |-> FALSE,
        value |-> [i \in 1..Len(violations) |-> EnrichOne(violations[i], i - 1)]]

\* The catch block of enrichViolations; reading v.id of a mapping never throws.
EnrichCatch(violations) ==
  [threw |-> FALSE,
   value |-> [i \in 1..Len(violations) |-> MinimalOne(violations[i], i - 1)]]

\* enrichViolations without its try/catch: the exception leaves the function.
EnrichNoCatch(violations) == EnrichTry(violations)

\* enrichViolations(violations): threw tells whether the call raised, value
\* is the array it returned.
enrichViolations(violations) ==
  IF EnrichTry(violations).threw THEN EnrichCatch(violations) ELSE EnrichTry(violations)

(***************************************************************************)
(* prioritizeRemediations.                                                 *)
(***************************************************************************)
\* String.prototype.toLowerCase on the impact vocabulary.
ToLowerCase(s) ==
  CASE s \in {"Critical", "CRITICAL"} -> "critical"
    [] s \in {"Serious", "SERIOUS"} -> "serious"
    [] s = "High" -> "high"
    [] s = "Moderate" -> "moderate"
    [] s = "Low" -> "low"
    [] s = "Minor" -> "minor"
    [] s = "Constructor" -> "constructor"
    [] OTHER -> s

\* weight[key] on the object literal of line 32: its own properties, then
\* the properties it inherits from Object.prototype (functions and objects,
\* all truthy), then undefined.
WeightLookup(key) ==
  CASE key = "critical" -> JNum(5)
    [] key = "serious" -> JNum(4)
    [] key = "high" -> JNum(4)
    [] key = "moderate" -> JNum(3)
    [] key = "low" -> JNum(2)
    [] key = "minor" -> JNum(1)
    [] key \in {"constructor", "__proto__"} ->
         [k |-> "object", s |-> key, n |-> 0, a |-> <<>>]
    [] OTHER -> JUndef

\* weight[(x.impact || "").toLowerCase()] || 2, for an impact that is a
\* string or falsy.
WeightOf(x) == Or(WeightLookup(ToLowerCase(Or(x.impact, JStr("")).s)), JNum(2))

\* The comparator of line 33-37, as Array.prototype.sort reads its result:
\* wb - wa, where NaN counts as +0.
Compare(x, y) ==
  LET d == Minus(WeightOf(y), WeightOf(x))
  IN IF d.k = "NaN" THEN 0 ELSE d.n

\* Whether the comparator is a consistent comparator for the elements of xs
\* (ECMAScript 23.1.3.30): otherwise the sort order is implementation-defined.
Consistent(xs) ==
  \A i, j, l \in 1..Len(xs) :
    /\ (Compare(xs[i], xs[j]) = 0 /\ Compare(xs[j], xs[l]) = 0
          => Compare(xs[i], xs[l]) = 0)
    /\ (Compare(xs[i], xs[j]) < 0 /\ Compare(xs[j], xs[l]) < 0
          => Compare(xs[i], xs[l]) < 0)
    /\ (Compare(xs[i], xs[j]) < 0 /\ Compare(xs[j], xs[l]) = 0
          => Compare(xs[i], xs[l]) < 0)
    /\ (Compare(xs[i], xs[j]) = 0 /\ Compare(xs[j], xs[l]) < 0
          => Compare(xs[i], xs[l]) < 0)

\* x placed into the sorted sequence xs after every element it does not
\* precede: the insertion step of a stable sort.
RECURSIVE Insert(_, _)
Insert(xs, x) ==
  IF xs = <<>> THEN <<x>>
  ELSE IF Compare(x, xs[Len(xs)]) < 0
       THEN Insert(SubSeq(xs, 1, Len(xs) - 1), x) \o <<xs[Len(xs)]>>
       ELSE xs \o <<x>>

RECURSIVE StableSort(_)
StableSort(xs) ==
  IF xs = <<>> THEN <<>>
  ELSE Insert(StableSort(SubSeq(xs, 1, Len(xs) - 1)), xs[Len(xs)])

AnyOrder(xs) ==
  {[i \in 1..Len(xs) |-> xs[p[i]]] :
     p \in {q \in [1..Len(xs) -> 1..Len(xs)] :
              \A i, j \in 1..Len(xs) : i # j => q[i] # q[j]}}

\* The arrays enriched.slice().sort(comparator) can return: the stable sort
\* (Array.prototype.sort is stable), and any order when the comparator is
\* not consistent.
prioritizeRemediations(enriched) ==
  IF Consistent(enriched) THEN {StableSort(enriched)} ELSE AnyOrder(enriched)

(***************************************************************************)
(* generateAuditReport, validateAuditResults, performSanityCheck.          *)
(* The collaborators imported from @/lib/gemini are described by the       *)
(* environment e: e.plan and e.summary are "function" (the import is a     *)
(* function and its call returns), "throws" (it is a function and its call *)
(* throws) or "undefined" (the import is not a function).                  *)
(***************************************************************************)
PenaltyPerViolation == 8

\* What generateImprovementPlan(v) returns: a suggestion derived from v.
ImprovementPlan(v) == [k |-> "plan", s |-> v.id.s, n |-> 0, a |-> <<>>]

\* What generateSummary({url, violations}) returns.
AiSummary(issues) == <<"summary of ", NumberToString(Len(issues)), " issue(s)">>

\* `Found ${totalViolations} accessibility issue(s).`
TemplateSummary(total) == <<"Found ", NumberToString(total), " accessibility issue(s).">>

\* One element of detailedIssues (lines 50-58).  An enriched violation has no
\* help field, and its raw field is always an object.
DetailedIssue(v, idx, e) ==
  [id |-> Or(v.id, JStr(IssueId(idx))),
   description |-> Or(Or(v.description, v.raw.description), JStr("")),
   impact |-> Or(v.impact, JStr("moderate")),
   wcag |-> Or(v.wcag, JArr(<<>>)),
   nodes |-> Or(v.nodes, JArr(<<>>)),
   remediation |-> IF e.plan = "undefined" THEN JNull ELSE ImprovementPlan(v),
   raw |-> v.raw,
   aiExplanation |-> JUndef]

\* generateAuditReport(fullScanResults), violations the enriched list passed
\* as fullScanResults.violations: threw tells whether a collaborator's
\* exception left the function.
generateAuditReport(violations, e) ==
  LET totalViolations == Len(violations)
      detailedIssues ==
        [i \in 1..totalViolations |-> DetailedIssue(violations[i], i - 1, e)]
  IN IF (e.plan = "throws" /\ totalViolations > 0) \/ e.summary = "throws"
     THEN [threw |-> TRUE,
           accessibilityScore |-> JUndef,
           detailedIssues |-> <<>>,
           summary |-> <<>>]
     ELSE [threw |-> FALSE,
           accessibilityScore |->
             MathMax(JNum(0),
                     MathMin(JNum(100),
                             JNum(100 - totalViolations * PenaltyPerViolation))),
           detailedIssues |-> detailedIssues,
           summary |-> IF e.summary = "function" THEN AiSummary(detailedIssues)
                       ELSE TemplateSummary(totalViolations)]

\* x >= c for a JavaScript number x: false when x is NaN.
AtLeast(x, c) == x.k = "number" /\ x.n >= c

\* typeof x === "number": NaN is a number.
IsNumber(x) == x.k \in {"number", "NaN"}

\* validateAuditResults(auditReport)
validateAuditResults(auditReport) ==
  LET issues == auditReport.detailedIssues
      validationScore ==
        MathMax(JNum(0),
                MathMin(JNum(100),
                        Minus(auditReport.accessibilityScore, JNum(Len(issues) \div 2))))
  IN [overallQuality |-> IF AtLeast(validationScore, 80) THEN "good"
                         ELSE IF AtLeast(validationScore, 50) THEN "fair" ELSE "poor",
      validationScore |-> validationScore,
      issues |-> [i \in 1..Len(issues) |-> [id |-> issues[i].id, impact |-> issues[i].impact]],
      warnings |-> IF ~IsNumber(auditReport.accessibilityScore)
                   THEN <<"Missing score">> ELSE <<>>]

\* performSanityCheck(auditReport)
performSanityCheck(auditReport) ==
  LET passed == /\ auditReport.accessibilityScore.k = "number"
                /\ auditReport.accessibilityScore.n >= 0
                /\ auditReport.accessibilityScore.n <= 100
  IN [passed |-> passed,
      notes |-> IF passed THEN <<>> ELSE <<"accessibilityScore missing or out of range">>]

(***************************************************************************)
(* checkRateLimit of @/lib/rateLimiter: a sliding window per client        *)
(* identifier over the timestamps of the requests it admitted.             *)
(***************************************************************************)
Ips == {"10.0.0.1", "10.0.0.2", "unknown"}

RECURSIVE InWindow(_, _)
InWindow(stamps, t) ==
  IF stamps = <<>> THEN <<>>
  ELSE (IF t - Head(stamps) < WindowTicks THEN <<Head(stamps)>> ELSE <<>>)
         \o InWindow(Tail(stamps), t)

\* checkRateLimit that also records the requests it rejects.
CheckRecordsRejected(map, ip, t) ==
  LET recent == InWindow(map[ip], t)
  IN [allowed |-> Len(recent) < RateLimit,
      retryAfter |-> IF Len(recent) >= RateLimit THEN Head(recent) + WindowTicks - t ELSE 0,
      map |-> [map EXCEPT ![ip] = Append(recent, t)]]

\* checkRateLimit(ip) at time t on the map of timestamps: purge what is
\* older than the window; at or above the limit reject, with retryAfter the
\* time until the oldest timestamp in the window expires; otherwise record
\* t and admit.
checkRateLimit(map, ip, t) ==
  LET recent == InWindow(map[ip], t)
  IN IF Len(recent) >= RateLimit
     THEN [allowed |-> FALSE,
           retryAfter |-> Head(recent) + WindowTicks - t,
           map |-> [map EXCEPT ![ip] = recent]]
     ELSE [allowed |-> TRUE,
           retryAfter |-> 0,
           map |-> [map EXCEPT ![ip] = Append(recent, t)]]

(***************************************************************************)
(* The request: its origin headers and its body.                           *)
(***************************************************************************)
\* req.headers.get(name) is null for a header the request does not carry.
HeaderSets ==
  { [xff |-> JStr("10.0.0.1"), xci |-> JNull, cf |-> JNull],
    [xff |-> JNull, xci |-> JStr("10.0.0.1"), cf |-> JStr("10.0.0.2")],
    [xff |-> JNull, xci |-> JNull, cf |-> JStr("10.0.0.1")],
    [xff |-> JNull, xci |-> JNull, cf |-> JNull] }

\* The client a request comes from: the first of its forwarded-for,
\* client-ip and connecting-ip origins that it states, else "unknown".
Origin(h) ==
  LET stated == SelectSeq(<<h.xff, h.xci, h.cf>>, LAMBDA v : v.k = "string" /\ v.s # "")
  IN IF stated = <<>> THEN "unknown" ELSE Head(stated).s

\* The client identifier with cf-connecting-ip read first.
ClientIpConnectingFirst(h) == Or(Or(Or(h.cf, h.xci), h.xff), JStr("unknown")).s

\* Lines 130-133: forwarded-for, then client-ip, then connecting-ip, else "unknown".
ClientIp(h) == Or(Or(Or(h.xff, h.xci), h.cf), JStr("unknown")).s

\* The url of a request body: missing, null, a number, or a string of
\* characters c.
UrlUndefined == [k |-> "undefined", c |-> <<>>]

UrlNull == [k |-> "null", c |-> <<>>]

UrlNumber == [k |-> "number", c |-> <<>>]

UrlString(c) == [k |-> "string", c |-> c]

\* !url: true of undefined, null and "" (the number is not 0).
UrlFalsy(u) == u.k \in {"undefined", "null"} \/ (u.k = "string" /\ u.c = <<>>)

\* The bodies of the requests: text that is not JSON, and JSON objects.
InvalidJson == [json |-> FALSE, url |-> UrlUndefined]

Body(u) == [json |-> TRUE, url |-> u]

Bodies ==
  { InvalidJson,
    Body(UrlUndefined),
    Body(UrlNull),
    Body(UrlNumber),
    Body(UrlString(<<>>)),
    Body(UrlString(<<" ", " ">>)),
    Body(UrlString(<<" ", "a", ".", "a", " ">>)),
    Body(UrlString(<<"a", " ", "a">>)),
    Body(UrlString(<<"/">>)),
    Body(UrlString(Http \o <<"a", ".", "a", "/", "a", " ", "a">>)),
    Body(UrlString(Https \o <<"a", ":", "a">>)),
    Body(UrlString(Https)) }

\* Lines 159-164: trim, then prepend https:// unless a scheme prefix is there.
NormalizeUrl(c) ==
  LET url == Trim(c)
  IN IF ~StartsWith(url, Http) /\ ~StartsWith(url, Https) THEN Https \o url ELSE url

\* Lines 151-177 without the whitespace test: if (!url).
UrlCheckNoTrim(u) ==
  IF UrlFalsy(u) THEN "required"
  ELSE IF u.k # "string" THEN "TypeError"
  ELSE IF ~UrlParses(NormalizeUrl(u.c)) THEN "invalid"
  ELSE "ok"

\* Lines 151-177: "required" and "invalid" are the two 400 answers,
\* "TypeError" is url.trim not being a function, "ok" lets the scan start.
UrlCheck(u) ==
  IF UrlFalsy(u) THEN "required"
  ELSE IF u.k # "string" THEN "TypeError"
  ELSE IF Trim(u.c) = <<>> THEN "required"
  ELSE IF ~UrlParses(NormalizeUrl(u.c)) THEN "invalid"
  ELSE "ok"

(***************************************************************************)
(* Errors and the catch block of POST (lines 326-356).  An error message   *)
(* is its text and the set of the signatures the catch block searches for  *)
(* that occur in it.                                                       *)
(***************************************************************************)
Signatures ==
  {"timeout", "timed out", "ERR_NAME_NOT_RESOLVED", "ENOTFOUND",
   "ERR_CONNECTION_REFUSED", "net::ERR", "ERR::"}

Message(text, has) == [text |-> text, has |-> has]

NotJsonError == Message("Unexpected token < in JSON at position 0", {})

TrimTypeError == Message("url.trim is not a function", {})

CollaboratorError == Message("[GoogleGenerativeAI Error]: API key not valid", {})

FilterTypeError == Message("(v.tags || []).filter is not a function", {})

ExplainError == Message("[GoogleGenerativeAI Error]: quota exceeded", {})

ScanErrors ==
  { Message("Navigation timeout of 30000 ms exceeded", {"timeout"}),
    Message("net::ERR_NAME_NOT_RESOLVED at https://a.a", {"ERR_NAME_NOT_RESOLVED", "net::ERR"}),
    Message("net::ERR_CONNECTION_REFUSED at https://a.a", {"ERR_CONNECTION_REFUSED", "net::ERR"}),
    Message("net::ERR_CERT_DATE_INVALID at https://a.a", {"net::ERR"}),
    Message("Failed to launch the browser process! spawn /usr/bin/chromium ENOENT", {}),
    Message("", {}) }

\* errorMessage of lines 336-346.
ErrorMessage(error) ==
  LET errorMessage == IF error.text # "" THEN error.text
                      ELSE "Failed to complete accessibility audit"
  IN IF "timeout" \in error.has \/ "timed out" \in error.has
     THEN "The website took too long to load. Please try a different URL or a faster website."
     ELSE IF "ERR_NAME_NOT_RESOLVED" \in error.has \/ "ENOTFOUND" \in error.has
     THEN "Could not find that website. Please check the URL and try again."
     ELSE IF "ERR_CONNECTION_REFUSED" \in error.has
     THEN "Connection refused. The website may be down or blocked."
     ELSE IF "net::ERR" \in error.has \/ "ERR::" \in error.has
     THEN "Network error. Please check the URL and your internet connection."
     ELSE errorMessage

(***************************************************************************)
(* Responses.  One record shape for all: the fields a response does not    *)
(* carry are empty.                                                        *)
(***************************************************************************)
NoResponse ==
  [status |-> 0, error |-> "", retryAfter |-> <<>>, retryAfterHeader |-> <<>>,
   success |-> FALSE, accessibilityScore |-> JUndef, detailedIssues |-> <<>>,
   summary |-> <<>>, quality |-> "", validationScore |-> JUndef, sanityPassed |-> FALSE]

\* The 429 answer with a Retry-After header that carries another number
\* than the body.
RateLimitedWindowHeader(rateLimitResult) ==
  [NoResponse EXCEPT
     !.status = 429,
     !.error = "Too many requests. Please try again in {retryAfter} seconds.",
     !.retryAfter = NumberToString(rateLimitResult.retryAfter),
     !.retryAfterHeader = NumberToString(WindowTicks + 1)]

\* Lines 139-145: the 429 answer; the body is JSON text and the header value
\* is made a string, so both carry retryAfter in decimal.
RateLimitedResponse(rateLimitResult) ==
  [NoResponse EXCEPT
     !.status = 429,
     !.error = "Too many requests. Please try again in {retryAfter} seconds.",
     !.retryAfter = NumberToString(rateLimitResult.retryAfter),
     !.retryAfterHeader = NumberToString(rateLimitResult.retryAfter)]

\* Lines 153-156 and 171-176: the two 400 answers.
BadRequestResponse(check) ==
  [NoResponse EXCEPT
     !.status = 400,
     !.error = IF check = "required" THEN "URL is required"
               ELSE "Invalid URL format. Please enter a valid URL like example.com or https://example.com"]

\* Lines 348-356: the 500 answer of the catch block.
ErrorResponse(error) ==
  [NoResponse EXCEPT !.status = 500, !.error = ErrorMessage(error)]

\* The request before it arrives: the handler's locals, not yet set.
NoReport ==
  [threw |-> FALSE, accessibilityScore |-> JUndef, detailedIssues |-> <<>>, summary |-> <<>>]

Idle ==
  [pc |-> "idle", ip |-> "", client |-> "", prior |-> 0, readmitted |-> FALSE,
   rateLimitResult |-> [allowed |-> FALSE, retryAfter |-> 0],
   body |-> InvalidJson, url |-> <<>>, scanCalls |-> 0, scan |-> "none",
   violations |-> <<>>, prioritized |-> <<>>, auditReport |-> NoReport,
   results |-> <<>>, outcome |-> <<>>, overtaken |-> FALSE,
   enhancedWithAI |-> <<>>, response |-> NoResponse]

(***************************************************************************)
(* The synchronous pipeline of POST (lines 199-225) as a machine of its    *)
(* own: enrichViolations, prioritizeRemediations, generateAuditReport and  *)
(* validateAuditResults applied in the handler's order to a raw violation  *)
(* list drawn at the start.                                                *)
(***************************************************************************)
RawSamples ==
  { EmptyObject,
    Obj([id |-> JStr("image-alt"), impact |-> JStr("critical"),
         description |-> JStr("Images must have alternate text"),
         tags |-> JArr(<<"cat.text-alternatives", "wcag2a", "wcag111">>)]),
    Obj([id |-> JStr("region"), impact |-> JStr("minor"),
         tags |-> JArr(<<"best-practice">>)]),
    Obj([ruleId |-> JStr("label"), severity |-> JStr("High"),
         help |-> JStr("Form elements must have labels")]),
    Obj([id |-> JStr(""), impact |-> JStr("banana"), message |-> JStr("m"),
         tags |-> JArr(<<"WCAG21aa">>)]),
    Obj([id |-> JStr("list"), impact |-> JStr("constructor")]),
    Obj([id |-> JStr("meta-viewport"), impact |-> JStr("critical"),
         tags |-> JStr("wcag2aa")]) }

RECURSIVE Repeat(_, _)
Repeat(x, k) == IF k = 0 THEN <<>> ELSE <<x>> \o Repeat(x, k - 1)

RawLists ==
  UNION {[1..k -> RawSamples] : k \in 0..MaxRawLen}
    \cup {Repeat(Obj([id |-> JStr("region"), impact |-> JStr("minor")]), k) :
            k \in (MaxRawLen + 1)..MaxViolations}

\* The values a report's accessibilityScore is given when the report handed
\* to validateAuditResults is not the one generateAuditReport built: the
\* field missing, null, or a string.
ForeignScores == {JUndef, JNull, JStr("n/a")}

NoEnv == [geminiKey |-> FALSE, plan |-> "function", summary |-> "function"]

SyncEnvs ==
  {[geminiKey |-> FALSE, plan |-> m, summary |-> m] : m \in {"function", "undefined"}}

NoCall == [pc |-> "none"]

InitSync ==
  /\ now = 0
  /\ requests = <<>>
  /\ admitted = <<>>
  /\ req = Idle
  /\ env \in SyncEnvs
  /\ \E vs \in RawLists : call = [pc |-> "scanned", violations |-> vs]

\* const enrichedViolations = enrichViolations(violations)
SyncEnrich ==
  /\ call.pc = "scanned"
  /\ LET r == enrichViolations(call.violations)
     IN call' = [pc |-> IF r.threw THEN "threw" ELSE "enriched",
                 violations |-> call.violations,
                 enriched |-> r.value]
  /\ UNCHANGED <<now, requests, admitted, env, req>>

\* const prioritized = prioritizeRemediations(enrichedViolations); slice()
\* copies, so the enriched array is left as it was.
SyncPrioritize ==
  /\ call.pc = "enriched"
  /\ \E p \in prioritizeRemediations(call.enriched) :
       call' = [pc |-> "prioritized",
                violations |-> call.violations,
                enriched |-> call.enriched,
                prioritized |-> p]
  /\ UNCHANGED <<now, requests, admitted, env, req>>

\* const auditReport = generateAuditReport(fullScanResults)
SyncReport ==
  /\ call.pc = "prioritized"
  /\ LET r == generateAuditReport(call.enriched, env)
     IN call' = [pc |-> IF r.threw THEN "threw" ELSE "built",
                 violations |-> call.violations,
                 enriched |-> call.enriched,
                 prioritized |-> call.prioritized,
                 auditReport |-> r]
  /\ UNCHANGED <<now, requests, admitted, env, req>>

\* validateAuditResults(auditReport), on the report just built
SyncValidate ==
  /\ call.pc = "built"
  /\ call' = [pc |-> "validated",
              violations |-> call.violations,
              enriched |-> call.enriched,
              prioritized |-> call.prioritized,
              auditReport |-> call.auditReport,
              validation |-> validateAuditResults(call.auditReport)]
  /\ UNCHANGED <<now, requests, admitted, env, req>>

\* validateAuditResults(auditReport), on a report whose accessibilityScore
\* is missing or not a number
SyncValidateForeign ==
  /\ call.pc = "built"
  /\ \E x \in ForeignScores :
       LET given == [call.auditReport EXCEPT !.accessibilityScore = x]
       IN call' = [pc |-> "validated",
                   violations |-> call.violations,
                   enriched |-> call.enriched,
                   prioritized |-> call.prioritized,
                   auditReport |-> given,
                   validation |-> validateAuditResults(given)]
  /\ UNCHANGED <<now, requests, admitted, env, req>>

\* The pipeline of lines 199-219 applied once more to the same raw list,
\* in the same process: enrichViolations, prioritizeRemediations and
\* generateAuditReport.  Array.prototype.sort is one algorithm in one build,
\* so where the comparator leaves the order to the implementation the
\* second sort of an equal array orders it as the first did.
SyncRunAgain ==
  /\ call.pc = "built"
  /\ LET r == enrichViolations(call.violations)
     IN \E p \in prioritizeRemediations(r.value) :
          /\ r.value = call.enriched => p = call.prioritized
          /\ call' = [pc |-> "rerun",
                      violations |-> call.violations,
                      enriched |-> call.enriched,
                      prioritized |-> call.prioritized,
                      auditReport |-> call.auditReport,
                      again |-> [threw |-> r.threw,
                                 enriched |-> r.value,
                                 prioritized |-> p,
                                 auditReport |-> generateAuditReport(r.value, env)]]
  /\ UNCHANGED <<now, requests, admitted, env, req>>

NextSync ==
  \/ SyncEnrich
  \/ SyncPrioritize
  \/ SyncReport
  \/ SyncValidate
  \/ SyncValidateForeign
  \/ SyncRunAgain

SpecSync == InitSync /\ [][NextSync]_vars

(***************************************************************************)
(* Properties of the synchronous pipeline.                                 *)
(***************************************************************************)
IntegerInRange(x) == x.k = "number" /\ x.n \in 0..100

\* C1: in every report that generateAuditReport built and validateAuditResults
\* was given, also one whose accessibilityScore is missing or not numeric,
\* the scores are integers in [0,100]: the accessibilityScore as built, the
\* validationScore always, and validationScore <= accessibilityScore
\* whenever the report has a numeric accessibilityScore.
ScoresInRange ==
  /\ call.pc = "built" => IntegerInRange(call.auditReport.accessibilityScore)
  /\ call.pc = "validated" =>
       /\ IntegerInRange(call.validation.validationScore)
       /\ IsNumber(call.auditReport.accessibilityScore) =>
            /\ IntegerInRange(call.auditReport.accessibilityScore)
            /\ call.validation.validationScore.n <= call.auditReport.accessibilityScore.n

NonEmptyId(x) == x.id.k = "string" /\ x.id.s # ""

IsMinimal(x) ==
  /\ x.description = JUndef
  /\ x.impact = JUndef
  /\ x.nodes = JUndef
  /\ x.wcag = JUndef

\* C7: enrichViolations never raises, returns as many items as it was given,
\* each with a non-empty id and its raw record, and a record that cannot be
\* normalized comes back as the minimal {id, raw} record.
EnrichmentTotal ==
  /\ call.pc # "threw"
  /\ call.pc \in {"enriched", "prioritized", "built", "validated"} =>
       /\ Len(call.enriched) = Len(call.violations)
       /\ \A i \in 1..Len(call.enriched) :
            /\ NonEmptyId(call.enriched[i])
            /\ call.enriched[i].raw = call.violations[i]
            /\ FilterThrows(call.violations[i]) => IsMinimal(call.enriched[i])

\* C7 witness: a list with a record that cannot be normalized and a record
\* without an id has been enriched.
EnrichmentDegraded ==
  /\ call.pc = "enriched"
  /\ Len(call.violations) >= 2
  /\ \E i \in 1..Len(call.violations) : FilterThrows(call.violations[i])
  /\ \E i \in 1..Len(call.violations) : ~Truthy(call.violations[i].id)

\* The weight the severity table gives an item: case-insensitive lookup,
\* 2 for an impact that is missing or not in the table.
TableWeight(x) ==
  LET key == ToLowerCase(Or(x.impact, JStr("")).s)
  IN CASE key = "critical" -> 5
       [] key \in {"serious", "high"} -> 4
       [] key = "moderate" -> 3
       [] key = "minor" -> 1
       [] OTHER -> 2

RECURSIVE OfWeight(_, _)
OfWeight(xs, w) ==
  IF xs = <<>> THEN <<>>
  ELSE (IF TableWeight(Head(xs)) = w THEN <<Head(xs)>> ELSE <<>>) \o OfWeight(Tail(xs), w)

\* The items of xs by non-increasing weight, equal weights in input order.
ByWeight(xs) ==
  OfWeight(xs, 5) \o OfWeight(xs, 4) \o OfWeight(xs, 3) \o OfWeight(xs, 2) \o OfWeight(xs, 1)

\* C8: prioritizeRemediations returns the permutation of its input sorted by
\* non-increasing table weight with equal weights in input order, and leaves
\* its input as it was.
PrioritizedByWeight ==
  call.pc \in {"prioritized", "built", "validated"} =>
    /\ call.prioritized = ByWeight(call.enriched)
    /\ Len(call.enriched) = Len(call.violations)
    /\ \A i \in 1..Len(call.enriched) : call.enriched[i].raw = call.violations[i]

(***************************************************************************)
(* POST (lines 123-367).  The handler touches the state it shares with     *)
(* other requests only in checkRateLimit, which runs to completion before  *)
(* the first await; what follows works on the request's own locals.  The   *)
(* model therefore carries one request at a time through the handler, and  *)
(* requests of different clients alternate in any order at the admission   *)
(* check.  The request is a record: pc is the await the handler is         *)
(* suspended at ("json": req.json(), "scan": scanWebsite, "explain":       *)
(* Promise.all of the explainIssue calls), "done" once it has answered.    *)
(* ip, rateLimitResult, url, violations, prioritized, auditReport and      *)
(* enhancedWithAI are the handler's locals; results is the array           *)
(* Promise.all fills; scanCalls counts the calls of scanWebsite, outcome   *)
(* is how each explainIssue call ended, client is the client the request   *)
(* comes from, prior is the number of requests of that client admitted     *)
(* within the window before this one, readmitted tells whether it was      *)
(* admitted after a request of the same client had been rejected, and      *)
(* overtaken tells whether an explainIssue call settled before one of an   *)
(* earlier item.                                                           *)
(***************************************************************************)
AiLimit == 5

Pending == [pending |-> TRUE, rejected |-> FALSE, value |-> MinimalOne(EmptyObject, 0)]

Settled(item) == [pending |-> FALSE, rejected |-> FALSE, value |-> item]

Rejected == [pending |-> FALSE, rejected |-> TRUE, value |-> MinimalOne(EmptyObject, 0)]

\* What explainIssue(violation) resolves to: the explanation of that violation.
Explanation(violation) == [k |-> "explanation", s |-> violation.id.s, n |-> 0, a |-> <<>>]

\* The mapper of lines 249-260 without its try/catch: a failed explainIssue
\* call rejects the promise of the item.
ExplainNoCatch(violation, ok) ==
  IF ok THEN Settled([violation EXCEPT !.aiExplanation = Explanation(violation)])
  ELSE Rejected

\* The mapper of lines 249-260: what the promise of one item settles to
\* when its explainIssue call succeeds (ok) or throws.
ExplainItem(violation, ok) ==
  IF ok THEN Settled([violation EXCEPT !.aiExplanation = Explanation(violation)])
  ELSE Settled(violation)

RECURSIVE FirstPending(_)
FirstPending(results) ==
  IF results = <<>> \/ Head(results).pending THEN 1 ELSE 1 + FirstPending(Tail(results))

\* A Promise.all that collected its values in the order the promises settle.
PutInSettleOrder(results, i, settled) ==
  [results EXCEPT ![FirstPending(results)] = settled]

\* Promise.all (line 248): the value of the i-th promise goes to index i.
PromiseAllPut(results, i, settled) == [results EXCEPT ![i] = settled]

Min(x, y) == IF x <= y THEN x ELSE y

\* The array Promise.all resolved to, followed by prioritized.slice(5).
EnhancedWithAI(results, prioritized) ==
  [i \in 1..Len(results) |-> results[i].value]
    \o SubSeq(prioritized, AiLimit + 1, Len(prioritized))

\* Lines 278-324: the 200 answer.  detailedIssues[idx] gets
\* enhancedWithAI[idx]?.aiExplanation || undefined.
SuccessResponse(auditReport, enhancedWithAI) ==
  LET validationResults == validateAuditResults(auditReport)
      sanityCheck == performSanityCheck(auditReport)
  IN [NoResponse EXCEPT
        !.status = 200,
        !.success = TRUE,
        !.accessibilityScore = auditReport.accessibilityScore,
        !.detailedIssues =
          [idx \in 1..Len(auditReport.detailedIssues) |->
             [auditReport.detailedIssues[idx] EXCEPT
                !.aiExplanation =
                  IF idx <= Len(enhancedWithAI)
                  THEN Or(enhancedWithAI[idx].aiExplanation, JUndef)
                  ELSE JUndef]],
        !.summary = auditReport.summary,
        !.quality = validationResults.overallQuality,
        !.validationScore = validationResults.validationScore,
        !.sanityPassed = sanityCheck.passed]

\* A handler that reads and validates the body first and asks checkRateLimit
\* only for a request whose url passed: its 400 answers leave no timestamp.
ArriveValidatesFirst(h, b) ==
  /\ req.pc \in {"idle", "done"}
  /\ LET ip == ClientIp(h)
         client == Origin(h)
         malformed == b.json /\ UrlCheck(b.url) \in {"required", "invalid"}
         rateLimitResult == checkRateLimit(requests, ip, now)
         entered == [Idle EXCEPT
                       !.ip = ip,
                       !.client = client,
                       !.prior = Len(InWindow(admitted[client].stamps, now)),
                       !.body = b]
         checked == [entered EXCEPT
                       !.readmitted = admitted[client].rejected /\ rateLimitResult.allowed,
                       !.rateLimitResult = [allowed |-> rateLimitResult.allowed,
                                            retryAfter |-> rateLimitResult.retryAfter]]
     IN IF malformed
        THEN /\ req' = [entered EXCEPT
                          !.pc = "done",
                          !.response = BadRequestResponse(UrlCheck(b.url))]
             /\ UNCHANGED <<requests, admitted>>
        ELSE /\ requests' = rateLimitResult.map
             /\ IF ~rateLimitResult.allowed
                THEN /\ req' = [checked EXCEPT
                                  !.pc = "done",
                                  !.response = RateLimitedResponse(rateLimitResult)]
                     /\ admitted' = [admitted EXCEPT ![client].rejected = TRUE]
                ELSE /\ req' = [checked EXCEPT !.pc = "json"]
                     /\ admitted' = [admitted EXCEPT ![client].stamps = Append(@, now)]
  /\ UNCHANGED <<now, env, call>>

\* Lines 124-148: the client identifier, the admission check, and the 429
\* answer or the suspension at req.json().
Arrive(h, b) ==
  /\ req.pc \in {"idle", "done"}
  /\ LET ip == ClientIp(h)
         rateLimitResult == checkRateLimit(requests, ip, now)
         client == Origin(h)
         entered == [Idle EXCEPT
                       !.ip = ip,
                       !.client = client,
                       !.prior = Len(InWindow(admitted[client].stamps, now)),
                       !.readmitted = admitted[client].rejected /\ rateLimitResult.allowed,
                       !.rateLimitResult = [allowed |-> rateLimitResult.allowed,
                                            retryAfter |-> rateLimitResult.retryAfter],
                       !.body = b]
     IN /\ requests' = rateLimitResult.map
        /\ IF ~rateLimitResult.allowed
           THEN /\ req' = [entered EXCEPT
                             !.pc = "done",
                             !.response = RateLimitedResponse(rateLimitResult)]
                /\ admitted' = [admitted EXCEPT ![client].rejected = TRUE]
           ELSE /\ req' = [entered EXCEPT !.pc = "json"]
                /\ admitted' = [admitted EXCEPT ![client].stamps = Append(@, now)]
  /\ UNCHANGED <<now, env, call>>

\* Lines 148-184: req.json() settles; the url is validated and normalized,
\* and the handler answers 400, ends in the catch block, or calls scanWebsite.
ReadBody ==
  /\ req.pc = "json"
  /\ LET body == req.body
         check == UrlCheck(body.url)
     IN req' =
          IF ~body.json
          THEN [req EXCEPT !.pc = "done", !.response = ErrorResponse(NotJsonError)]
          ELSE IF check = "TypeError"
          THEN [req EXCEPT !.pc = "done", !.response = ErrorResponse(TrimTypeError)]
          ELSE IF check \in {"required", "invalid"}
          THEN [req EXCEPT !.pc = "done", !.response = BadRequestResponse(check)]
          ELSE [req EXCEPT !.pc = "scan",
                           !.url = NormalizeUrl(body.url.c),
                           !.scanCalls = @ + 1]
  /\ UNCHANGED <<now, requests, admitted, env, call>>

\* Lines 184-265: scanWebsite resolves with the violations vs; phases 2 to 4
\* run, and the handler answers (no API key, or nothing to explain), ends
\* in the catch block (a helper threw), or starts the explainIssue calls of
\* the first five prioritized violations and awaits them all.
ScanReturns(vs) ==
  /\ req.pc = "scan"
  /\ LET enrichedViolations == enrichViolations(vs)
     IN \E prioritized \in prioritizeRemediations(enrichedViolations.value) :
          LET auditReport == generateAuditReport(enrichedViolations.value, env)
              scanned == [req EXCEPT
                            !.scan = "returned",
                            !.violations = vs,
                            !.prioritized = prioritized,
                            !.auditReport = auditReport]
          IN req' =
               IF enrichedViolations.threw \/ auditReport.threw
               THEN [scanned EXCEPT
                       !.pc = "done",
                       !.response = ErrorResponse(IF enrichedViolations.threw
                                                  THEN FilterTypeError
                                                  ELSE CollaboratorError)]
               ELSE IF env.geminiKey /\ Len(prioritized) > 0
               THEN [scanned EXCEPT
                       !.pc = "explain",
                       !.results = [i \in 1..Min(AiLimit, Len(prioritized)) |-> Pending],
                       !.outcome = [i \in 1..Min(AiLimit, Len(prioritized)) |-> "pending"]]
               ELSE [scanned EXCEPT
                       !.pc = "done",
                       !.enhancedWithAI = prioritized,
                       !.response = SuccessResponse(auditReport, prioritized)]
  /\ UNCHANGED <<now, requests, admitted, env, call>>

\* Line 184: scanWebsite rejects; the catch block answers 500.
ScanFails(error) ==
  /\ req.pc = "scan"
  /\ req' = [req EXCEPT !.pc = "done", !.scan = "failed",
                        !.response = ErrorResponse(error)]
  /\ UNCHANGED <<now, requests, admitted, env, call>>

\* Lines 249-260: the explainIssue call of the i-th prioritized violation
\* settles, with an explanation (ok) or an exception.
ExplainSettles(i, ok) ==
  /\ req.pc = "explain"
  /\ i \in 1..Len(req.outcome)
  /\ req.outcome[i] = "pending"
  /\ ~\E j \in 1..Len(req.results) : req.results[j].rejected
  /\ req' = [req EXCEPT
       !.results = PromiseAllPut(@, i, ExplainItem(req.prioritized[i], ok)),
       !.outcome = [@ EXCEPT ![i] = IF ok THEN "ok" ELSE "failed"],
       !.overtaken = @ \/ \E j \in 1..(i - 1) : req.outcome[j] = "pending"]
  /\ UNCHANGED <<now, requests, admitted, env, call>>

\* Lines 248-324: Promise.all settles and the handler answers: 500 from the
\* catch block if a promise rejected, else the 200 answer.
Respond ==
  /\ req.pc = "explain"
  /\ \/ \E i \in 1..Len(req.results) : req.results[i].rejected
     \/ \A i \in 1..Len(req.results) : ~req.results[i].pending
  /\ req' =
       IF \E i \in 1..Len(req.results) : req.results[i].rejected
       THEN [req EXCEPT !.pc = "done", !.response = ErrorResponse(ExplainError)]
       ELSE LET enhancedWithAI == EnhancedWithAI(req.results, req.prioritized)
            IN [req EXCEPT
                  !.pc = "done",
                  !.enhancedWithAI = enhancedWithAI,
                  !.response = SuccessResponse(req.auditReport, enhancedWithAI)]
  /\ UNCHANGED <<now, requests, admitted, env, call>>

\* Date.now() advances.  The record of admitted requests forgets those that
\* no later window can hold.
Tick ==
  /\ now < MaxTime
  /\ now' = now + 1
  /\ admitted' = [ip \in Ips |->
                    [admitted[ip] EXCEPT !.stamps = InWindow(@, now + 1)]]
  /\ UNCHANGED <<requests, env, req, call>>

(***************************************************************************)
(* Spec: requests of several clients against the clock; no API key is      *)
(* configured.                                                             *)
(***************************************************************************)
PipelineSamples ==
  { Obj([impact |-> JStr("critical")]),
    Obj([impact |-> JStr("minor")]),
    Obj([id |-> JStr("image-alt"), impact |-> JStr("serious")]) }

AdmissionBodies ==
  { Body(UrlUndefined),
    Body(UrlString(<<" ", "a", ".", "a", " ">>)) }

AdmissionScans == UNION {[1..k -> {Obj([impact |-> JStr("minor")])}] : k \in 0..MaxScanLen}

AdmissionErrors == {Message("Navigation timeout of 30000 ms exceeded", {"timeout"})}

Init ==
  /\ now = 0
  /\ requests = [ip \in Ips |-> <<>>]
  /\ admitted = [ip \in Ips |-> [stamps |-> <<>>, rejected |-> FALSE]]
  /\ env = NoEnv
  /\ req = Idle
  /\ call = NoCall

Next ==
  \/ \E h \in HeaderSets, b \in AdmissionBodies : Arrive(h, b)
  \/ ReadBody
  \/ \E vs \in AdmissionScans : ScanReturns(vs)
  \/ \E error \in AdmissionErrors : ScanFails(error)
  \/ Tick

Spec == Init /\ [][Next]_vars

(***************************************************************************)
(* SpecPipeline: one request after the other from one client, with every   *)
(* body, every configuration of the collaborators, and violation lists     *)
(* long enough for the explainIssue calls to leave items out.              *)
(***************************************************************************)
Alternating(k) ==
  [i \in 1..k |-> IF i % 2 = 1 THEN Obj([impact |-> JStr("minor")])
                  ELSE Obj([impact |-> JStr("critical")])]

PipelineLists ==
  UNION {[1..k -> PipelineSamples] : k \in 0..MaxMixedLen}
    \cup {Alternating(k) : k \in (MaxMixedLen + 1)..MaxPipelineLen}

PipelineEnvs ==
  {[geminiKey |-> key, plan |-> m[1], summary |-> m[2]] :
     key \in BOOLEAN,
     m \in {<<"function", "function">>, <<"undefined", "undefined">>,
            <<"throws", "function">>, <<"function", "throws">>}}

NoHeaders == [xff |-> JNull, xci |-> JNull, cf |-> JNull]

InitPipeline ==
  /\ now = 0
  /\ requests = [ip \in Ips |-> <<>>]
  /\ admitted = [ip \in Ips |-> [stamps |-> <<>>, rejected |-> FALSE]]
  /\ env \in PipelineEnvs
  /\ req = Idle
  /\ call = NoCall

NextPipeline ==
  \/ \E b \in Bodies : Arrive(NoHeaders, b)
  \/ ReadBody
  \/ \E vs \in PipelineLists : ScanReturns(vs)
  \/ \E error \in ScanErrors : ScanFails(error)
  \/ \E i \in 1..AiLimit, ok \in BOOLEAN : ExplainSettles(i, ok)
  \/ Respond

SpecPipeline == InitPipeline /\ [][NextPipeline]_vars

(***************************************************************************)
(* Properties of the handler.                                              *)
(***************************************************************************)
\* C2: with a limit of RateLimit per window, a request that finds RateLimit
\* or more requests of its client admitted within the window is rejected,
\* and a request that finds none of them within the window is admitted,
\* whatever the other clients did in between.
AdmissionWindow ==
  req.pc # "idle" =>
    /\ req.prior >= RateLimit => ~req.rateLimitResult.allowed
    /\ req.prior = 0 => req.rateLimitResult.allowed

\* C2 witness: a client that was rejected is admitted once its window has
\* elapsed, while the other client has requests in its own window.
ReadmittedAfterWindow ==
  /\ req.pc # "idle"
  /\ req.readmitted
  /\ req.prior = 0
  /\ \E ip \in Ips \ {req.client} : admitted[ip].stamps # <<>>

\* C3: a rejected request is answered 429 with a positive retry-after hint,
\* the same number in the body and in the Retry-After header, and scanWebsite
\* is not called for it.
RejectionAnswer ==
  (req.pc # "idle" /\ ~req.rateLimitResult.allowed) =>
    /\ req.pc = "done"
    /\ req.response.status = 429
    /\ ParseNumber(req.response.retryAfter) > 0
    /\ ParseNumber(req.response.retryAfter) = ParseNumber(req.response.retryAfterHeader)
    /\ req.scanCalls = 0
    /\ req.scan = "none"

\* C3 witness: a request was rejected with more than one tick to wait.
RejectedWithHint ==
  /\ req.pc = "done"
  /\ ~req.rateLimitResult.allowed
  /\ req.response.status = 429
  /\ ParseNumber(req.response.retryAfterHeader) > 1

\* The url of the body is missing, empty or only whitespace.
MissingUrl(b) ==
  /\ b.json
  /\ \/ b.url.k \in {"undefined", "null"}
     \/ b.url.k = "string" /\ \A i \in 1..Len(b.url.c) : b.url.c[i] = " "

\* The url of the body is a string that fails URL parsing once trimmed and
\* given the https:// prefix it lacks.
UnparsableUrl(b) ==
  /\ b.json
  /\ b.url.k = "string"
  /\ ~MissingUrl(b)
  /\ ~UrlParses(NormalizeUrl(b.url.c))

RequiredText == "URL is required"

InvalidText ==
  "Invalid URL format. Please enter a valid URL like example.com or https://example.com"

MalformedAnswer ==
  /\ req.response.status = 400
  /\ MissingUrl(req.body) => req.response.error = RequiredText
  /\ UnparsableUrl(req.body) => req.response.error = InvalidText
  /\ RequiredText # InvalidText
  /\ req.scanCalls = 0

ExplanationsMatchIssues ==
  (req.pc = "done" /\ req.response.status = 200) =>
    \A i \in 1..Len(req.response.detailedIssues) :
      LET issue == req.response.detailedIssues[i]
      IN issue.aiExplanation # JUndef =>
           /\ issue.aiExplanation.k = "explanation"
           /\ issue.aiExplanation.s = issue.id.s

\* x and y are the same item, the aiExplanation aside.
SameItem(x, y) == [x EXCEPT !.aiExplanation = JUndef] = [y EXCEPT !.aiExplanation = JUndef]

\* C5: whatever the order in which the explainIssue calls settle, the
\* annotated list has the length and the ids of the prioritized list in the
\* same order, only the first five items can carry an aiExplanation, and the
\* items after the fifth are the prioritized items unchanged.
AnnotationKeepsOrder ==
  (req.pc = "done" /\ req.response.status = 200) =>
    /\ Len(req.enhancedWithAI) = Len(req.prioritized)
    /\ \A i \in 1..Len(req.enhancedWithAI) :
         /\ req.enhancedWithAI[i].id = req.prioritized[i].id
         /\ SameItem(req.enhancedWithAI[i], req.prioritized[i])
         /\ i > AiLimit => req.enhancedWithAI[i] = req.prioritized[i]

\* C5 witness: a list of more than five items was annotated, with calls that
\* settled out of order.
AnnotatedOutOfOrder ==
  /\ req.pc = "done"
  /\ req.response.status = 200
  /\ req.overtaken
  /\ Len(req.prioritized) > AiLimit
  /\ \A i \in 1..AiLimit : req.enhancedWithAI[i].aiExplanation # JUndef

\* C6: when explainIssue calls fail, the request is still answered 200, each
\* item whose call failed comes back without aiExplanation, and each item
\* whose call succeeded carries the explanation of that item.
AnnotationFailuresIsolated ==
  (req.pc = "done" /\ req.outcome # <<>>) =>
    /\ req.response.status = 200
    /\ Len(req.enhancedWithAI) >= Len(req.outcome)
    /\ \A i \in 1..Len(req.outcome) :
         /\ req.outcome[i] = "failed" =>
              req.enhancedWithAI[i] = req.prioritized[i]
         /\ req.outcome[i] = "ok" =>
              req.enhancedWithAI[i] =
                [req.prioritized[i] EXCEPT !.aiExplanation = Explanation(req.prioritized[i])]

\* C6 witness: some explainIssue calls failed, others succeeded, and the
\* request was answered.
SomeAnnotationsFailed ==
  /\ req.pc = "done"
  /\ \E i \in 1..Len(req.outcome) : req.outcome[i] = "failed"
  /\ \E i \in 1..Len(req.outcome) : req.outcome[i] = "ok"

\* C9: when generateImprovementPlan or generateSummary is unavailable or
\* fails, the request whose scan returned is still answered with a report,
\* with remediation null on every issue and the template as summary.
ReportDegradesGracefully ==
  (req.pc = "done" /\ req.scan = "returned") =>
    /\ env.plan # "function" =>
         /\ req.response.status = 200
         /\ Len(req.response.detailedIssues) = Len(req.violations)
         /\ \A i \in 1..Len(req.response.detailedIssues) :
              req.response.detailedIssues[i].remediation = JNull
    /\ env.summary # "function" =>
         /\ req.response.status = 200
         /\ req.response.summary =
              <<"Found ", NumberToString(Len(req.violations)), " accessibility issue(s).">>

\* The user-facing texts the catch block of POST substitutes (lines 336-345):
\* timeout, website not found, connection refused, generic network error,
\* and the text it uses for an error that has no message.
SanitizedMessages ==
  { "The website took too long to load. Please try a different URL or a faster website.",
    "Could not find that website. Please check the URL and try again.",
    "Connection refused. The website may be down or blocked.",
    "Network error. Please check the URL and your internet connection.",
    "Failed to complete accessibility audit" }

\* C11: the error text of every 500 answer is one of the fixed sanitized
\* messages, never the text of the error that was caught.
ErrorsSanitized ==
  (req.pc = "done" /\ req.response.status = 500) =>
    req.response.error \in SanitizedMessages

AdmittedCountedOnce ==
  /\ \A ip \in Ips : InWindow(requests[ip], now) = admitted[ip].stamps
  /\ req.pc \in {"json", "scan", "explain"} => req.rateLimitResult.allowed
  /\ (req.pc # "idle" /\ ~req.rateLimitResult.allowed) =>
       Len(InWindow(requests[req.ip], now)) <= req.prior
  /\ (req.pc = "json" /\ req.prior < RateLimit) => requests[req.ip] # <<>>
  /\ (req.pc = "done" /\ req.response.status \in {400, 500}) =>
       /\ req.rateLimitResult.allowed
       /\ requests[req.ip] # <<>>

\* C13 witness: a request answered 400 took the last place in its client's
\* window, after a request of that client had been rejected.
InvalidRequestCounted ==
  /\ req.pc = "done"
  /\ req.response.status = 400
  /\ req.rateLimitResult.allowed
  /\ req.prior = RateLimit - 1
  /\ Len(InWindow(requests[req.ip], now)) = RateLimit
  /\ admitted[req.client].rejected
====
